---- MODULE Spec2Model ----
(***************************************************************************)
(* A model of the Times-Virginian archive backend (src/app.py and          *)
(* src/generate_archive_tree.py).  Each component of the backend has its   *)
(* own specification over the variables of that component; the variables   *)
(* of the other components are held at their initial value.                *)
(*                                                                         *)
(*   SpecSearch     /search_jsonl      (linear search engine)              *)
(*   SpecHighlight  /highlight         (single-page extraction pipeline)   *)
(*   SpecArchive    /generate_archive  (archive tree generator)            *)
(*   SpecSync       download_jsonl_cache (document cache sync)             *)
(*   SpecSubmit     /submit            (search middleware proxy)           *)
(*   SpecKeepAlive  _keep_tunnel_alive (background keep-alive thread)      *)
(*   SpecIndex      /jsonl_index       (index of the document cache)       *)
(***************************************************************************)
EXTENDS Integers, Sequences, FiniteSets, TLC

VARIABLES
    corpus,     \* the lines of JSONL_FILE, in file order
    sreq,       \* the /search_jsonl request: q, page, per_page
    sresp,      \* the /search_jsonl response, NoResp before the handler ran
    hreq,       \* the /highlight request: file, bbox, page, text
    henv,       \* what storage and the PDF library do for this request
    hresp,      \* the /highlight response, NoResp before the handler ran
    now,        \* the wall clock, in days
    directKey,  \* the DIRECT_KEY environment variable
    bucket,     \* the keys of the bucket under the prefix tva/
    afile,      \* times_virginian_archive.html on disk
    areq,       \* per /generate_archive request: position and local state
    remote,     \* version of every object under tva/cache/, 0 when absent
    local,      \* the files of the local cache directory static/jsonl
    sync,       \* per run of download_jsonl_cache: position and local state
    prev,       \* what the last run of download_jsonl_cache returned
    mreq,       \* the /submit request: the JSON body
    menv,       \* what the search middleware does for this request
    mresp,      \* the /submit response, NoResp before the handler ran
    kpc,        \* the position of the keep-alive thread in its loop
    klast,      \* how the last keep-alive ping ended
    handlers,   \* per request thread: the handler it runs and how it ended
    iremote,    \* the basenames of the objects under tva/cache/
    idir,       \* the names of the files of the directory static/jsonl
    ifile,      \* the entries of index-list.jsonl
    icall       \* per /jsonl_index or /update_jsonl_cache call: position

searchVars == <<corpus, sreq, sresp>>

highlightVars == <<hreq, henv, hresp>>

archiveVars == <<now, directKey, bucket, afile, areq>>

syncVars == <<remote, local, sync, prev>>

submitVars == <<mreq, menv, mresp>>

keepAliveVars == <<kpc, klast, handlers>>

indexVars == <<iremote, idir, ifile, icall>>

vars ==
    <<searchVars, highlightVars, archiveVars, syncVars, submitVars,
      keepAliveVars, indexVars>>

notSearchVars ==
    <<highlightVars, archiveVars, syncVars, submitVars, keepAliveVars,
      indexVars>>

notHighlightVars ==
    <<searchVars, archiveVars, syncVars, submitVars, keepAliveVars,
      indexVars>>

notArchiveVars ==
    <<searchVars, highlightVars, syncVars, submitVars, keepAliveVars,
      indexVars>>

notSyncVars ==
    <<searchVars, highlightVars, archiveVars, submitVars, keepAliveVars,
      indexVars>>

notSubmitVars ==
    <<searchVars, highlightVars, archiveVars, syncVars, keepAliveVars,
      indexVars>>

notKeepAliveVars ==
    <<searchVars, highlightVars, archiveVars, syncVars, submitVars,
      indexVars>>

notIndexVars ==
    <<searchVars, highlightVars, archiveVars, syncVars, submitVars,
      keepAliveVars>>

\* ------------------------------------------------------------------------
\* Small helpers
\* ------------------------------------------------------------------------
Min(a, b) == IF a <= b THEN a ELSE b

Max(a, b) == IF a >= b THEN a ELSE b

NoResp == [status |-> 0]

\* A request argument that is absent: request.args.get(...) gives None.
NoArg == [given |-> FALSE, str |-> <<>>]

Arg(str) == [given |-> TRUE, str |-> str]

\* The state of a component no request of which is being looked at.
SearchIdle ==
    /\ corpus = <<>>
    /\ sreq = [q |-> <<>>, page |-> 1, per_page |-> 0]
    /\ sresp = NoResp

HighlightIdle ==
    /\ hreq = [file |-> NoArg, bbox |-> NoArg, page |-> 1, text |-> <<>>]
    /\ henv = [fetch |-> "error", pdf |-> "corrupt", pages |-> 1,
               annot |-> "ok", occurrences |-> 0]
    /\ hresp = NoResp

\* The concurrent /generate_archive requests.
ArchiveProcs == { "r1", "r2" }

\* The content of a file that was opened for writing and not written yet.
EmptyContent ==
    [kind |-> "empty", links |-> <<>>, total |-> 0, signedAt |-> 0,
     expires |-> 0]

NoFile == [exists |-> FALSE, mtime |-> 0, content |-> EmptyContent]

\* A request that has not arrived.
IdleRequest ==
    [pc |-> "idle", password |-> NoArg, files |-> <<>>, listFailed |-> FALSE,
     html |-> EmptyContent, signFailed |-> FALSE, calls |-> {},
     wrote |-> FALSE, readCache |-> FALSE, sawExists |-> FALSE,
     sawOld |-> FALSE, status |-> 0, body |-> EmptyContent]

ArchiveIdle ==
    /\ now = 0
    /\ directKey = NoArg
    /\ bucket = {}
    /\ afile = NoFile
    /\ areq = [p \in ArchiveProcs |-> IdleRequest]

\* The concurrent runs of download_jsonl_cache.
SyncProcs == { "s1", "s2" }

\* The objects under tva/cache/, by their path after the prefix, in the
\* order of a storage listing.
SyncKeysSorted == << <<"notes.txt">>, <<"x.jsonl">>, <<"y.jsonl">> >>

LocalNames == { "x.jsonl", "y.jsonl" }

\* What a local file holds: nothing (it does not exist), no bytes, the
\* bytes of one version of the remote object, or bytes of two versions.
Absent == [kind |-> "absent", ver |-> 0]

Empty == [kind |-> "empty", ver |-> 0]

Full(v) == [kind |-> "full", ver |-> v]

Garbled == [kind |-> "garbled", ver |-> 0]

\* A run that has not started.
IdleRun ==
    [pc |-> "idle", cursor |-> 0, items |-> <<>>, more |-> FALSE,
     filenames |-> <<>>, key |-> 0, body |-> 0, result |-> <<>>,
     listFailed |-> FALSE, opened |-> {}, wrote |-> {}, failed |-> {},
     row |-> "no", changed |-> FALSE]

\* No run has returned yet, or the last one was not left alone: another run
\* was under way at the same time, or the bucket changed.
NoPrev == [valid |-> FALSE, result |-> <<>>, failed |-> FALSE]

SyncIdle ==
    /\ remote = [i \in 1..Len(SyncKeysSorted) |-> 0]
    /\ local = [f \in LocalNames |-> Absent]
    /\ sync = [p \in SyncProcs |-> IdleRun]
    /\ prev = NoPrev

SubmitIdle ==
    /\ mreq = [data |-> "none", text |-> <<>>]
    /\ menv = [post |-> "raises", body |-> <<>>]
    /\ mresp = NoResp

\* The request threads next to the keep-alive thread.
HandlerProcs == { "h1", "h2" }

IdleHandler == [pc |-> "idle", route |-> "", status |-> 0]

KeepAliveIdle ==
    /\ kpc = "loop"
    /\ klast = "none"
    /\ handlers = [h \in HandlerProcs |-> IdleHandler]

\* The concurrent calls of /jsonl_index and /update_jsonl_cache.
IndexProcs == { "c1", "c2" }

IdleCall ==
    [pc |-> "idle", op |-> "", files |-> {}, sawIndex |-> FALSE,
     persisted |-> {}, result |-> <<>>, changed |-> FALSE]

IndexIdle ==
    /\ iremote = {}
    /\ idir = {}
    /\ ifile = {}
    /\ icall = [c \in IndexProcs |-> IdleCall]

\* ========================================================================
\* /search_jsonl
\* ========================================================================

\* Bounds of the search model.
MaxCorpus == 3

MaxPage == 3

MaxPerPage == 2

\* Texts and queries are strings over the characters a, A and b.
Texts ==
    { <<>>, <<"a">>, <<"A">>, <<"b">>, <<"a", "a">>,
      <<"a", "b", "a">>, <<"a", "a", "a">> }

Queries == { <<>>, <<"a">>, <<"A">>, <<"b">>, <<"a", "a">> }

\* A line of the corpus: a record with a text field, a JSON object without
\* a text field, or a line that is no JSON at all.
Lines ==
    [kind : {"doc"}, text : Texts]
        \cup { [kind |-> "notext", text |-> <<>>],
               [kind |-> "malformed", text |-> <<>>] }

\* str.lower() on one character and on a string.
LowerChar(c) == IF c = "A" THEN "a" ELSE IF c = "B" THEN "b" ELSE c

Lower(s) == [i \in 1..Len(s) |-> LowerChar(s[i])]

\* Python's `sub in s` on strings.
StrIn(sub, s) ==
    \E i \in 1..(Len(s) - Len(sub) + 1) : SubSeq(s, i, i + Len(sub) - 1) = sub

\* json.loads(line) raises on a malformed line.
JsonLoadsRaises(line) == line.kind = "malformed"

\* doc['text'] raises KeyError on a record without a text field; the
\* faulty variant reads an empty text instead.
TextRaisesNever(line) == FALSE

TextRaises(line) == line.kind = "notext"

\* `query.lower() in doc['text'].lower()`, preceded by a faulty
\* variant that forgets lower().
MatchesCaseSensitive(query, line) == StrIn(query, line.text)

Matches(query, line) == StrIn(Lower(query), Lower(line.text))

\* First pass: the 0-based indices of the matching lines, or an exception.
RECURSIVE FirstPass(_, _, _, _)
FirstPass(lines, query, i, acc) ==
    IF i >= Len(lines) THEN [raised |-> FALSE, idx |-> acc]
    ELSE IF JsonLoadsRaises(lines[i + 1]) \/ TextRaises(lines[i + 1])
         THEN [raised |-> TRUE, idx |-> acc]
    ELSE IF Matches(query, lines[i + 1])
         THEN FirstPass(lines, query, i + 1, Append(acc, i))
    ELSE FirstPass(lines, query, i + 1, acc)

\* Python's s[start:stop] on a list, negative indices included.
SliceBound(k, n) == IF k < 0 THEN Max(k + n, 0) ELSE Min(k, n)

PySlice(s, start, stop) ==
    SubSeq(s, SliceBound(start, Len(s)) + 1, SliceBound(stop, Len(s)))

\* start_idx = (page - 1) * per_page, preceded by a faulty
\* variant that is one page off.
StartIdxOnePageOff(page, per_page) == page * per_page

StartIdx(page, per_page) == (page - 1) * per_page

EndIdx(page, per_page) == StartIdx(page, per_page) + per_page

\* str.replace(old, new) for a non-empty old: every non-overlapping
\* occurrence, left to right.
RECURSIVE StrReplace(_, _, _, _)
StrReplace(s, old, new, i) ==
    IF i > Len(s) THEN <<>>
    ELSE IF i + Len(old) - 1 <= Len(s) /\ SubSeq(s, i, i + Len(old) - 1) = old
         THEN new \o StrReplace(s, old, new, i + Len(old))
    ELSE <<s[i]>> \o StrReplace(s, old, new, i + 1)

\* doc['text'].replace(query, f'<mark>{query}</mark>')
Snippet(text, query) ==
    StrReplace(text, query, <<"<mark>">> \o query \o <<"</mark>">>, 1)

SeqRange(s) == { s[k] : k \in 1..Len(s) }

SeqMax(s) == CHOOSE m \in SeqRange(s) : \A x \in SeqRange(s) : x <= m

\* `if i > max(page_indices) if page_indices else 0: break`
\* parses as `(i > max(page_indices)) if page_indices else 0`.
BreakAfter(i, page_indices) ==
    IF page_indices # <<>> THEN i > SeqMax(page_indices) ELSE FALSE

\* Second pass: the documents of the page, each with its highlight.  `line`
\* is the 0-based index of the record in the corpus (not part of the JSON).
RECURSIVE SecondPass(_, _, _, _, _)
SecondPass(lines, query, page_indices, i, acc) ==
    IF i >= Len(lines) THEN [raised |-> FALSE, hits |-> acc]
    ELSE IF i \in SeqRange(page_indices)
         THEN IF JsonLoadsRaises(lines[i + 1]) \/ TextRaises(lines[i + 1])
              THEN [raised |-> TRUE, hits |-> acc]
              ELSE LET hit == [document |-> lines[i + 1],
                               line |-> i,
                               snippet |-> Snippet(lines[i + 1].text, query)]
                   IN  IF BreakAfter(i, page_indices)
                       THEN [raised |-> FALSE, hits |-> Append(acc, hit)]
                       ELSE SecondPass(lines, query, page_indices, i + 1,
                                       Append(acc, hit))
    ELSE IF BreakAfter(i, page_indices)
         THEN [raised |-> FALSE, hits |-> acc]
    ELSE SecondPass(lines, query, page_indices, i + 1, acc)

SearchError == [status |-> 500, body |-> "error", found |-> 0, hits |-> <<>>]

SearchOk(found, hits) ==
    [status |-> 200, body |-> "result", found |-> found, hits |-> hits]

\* The handler of /search_jsonl.
search_jsonl_endpoint(lines, query, page, per_page) ==
    IF query = <<>> THEN SearchOk(0, <<>>)
    ELSE LET first == FirstPass(lines, query, 0, <<>>)
             page_indices == PySlice(first.idx, StartIdx(page, per_page),
                                     EndIdx(page, per_page))
             second == SecondPass(lines, query, page_indices, 0, <<>>)
         IN  IF first.raised \/ second.raised THEN SearchError
             ELSE SearchOk(Len(first.idx), second.hits)

Corpora == UNION { [1..n -> Lines] : n \in 0..MaxCorpus }

SearchRequests ==
    [q : Queries, page : 0..MaxPage, per_page : 0..MaxPerPage]

SearchInit ==
    /\ corpus \in Corpora
    /\ sreq \in SearchRequests
    /\ sresp = NoResp
    /\ HighlightIdle
    /\ ArchiveIdle
    /\ SyncIdle
    /\ SubmitIdle
    /\ KeepAliveIdle
    /\ IndexIdle

\* One request to /search_jsonl is handled.
SearchJsonl ==
    /\ sresp = NoResp
    /\ sresp' = search_jsonl_endpoint(corpus, sreq.q, sreq.page, sreq.per_page)
    /\ UNCHANGED <<corpus, sreq>>
    /\ UNCHANGED notSearchVars

SearchNext == SearchJsonl

SpecSearch == SearchInit /\ [][SearchNext]_vars

\* ------------------------------------------------------------------------
\* Properties of /search_jsonl
\* ------------------------------------------------------------------------

\* The text t contains the query q at some position, ignoring case.
ContainsIgnoringCase(q, t) ==
    \E i \in 1..Len(t) :
        /\ i + Len(q) - 1 <= Len(t)
        /\ \A k \in 1..Len(q) : LowerChar(t[i + k - 1]) = LowerChar(q[k])

IsMatchingRecord(q, line) ==
    line.kind = "doc" /\ ContainsIgnoringCase(q, line.text)

MatchCount(lines, q) ==
    Cardinality({ i \in 1..Len(lines) : IsMatchingRecord(q, lines[i]) })

AllRecordsHaveText(lines) == \A i \in 1..Len(lines) : lines[i].kind = "doc"

SearchAnswered == sresp # NoResp /\ sreq.q # <<>>

\* C1: for a non-empty query, `found` is the number of corpus records whose
\* text contains the query case-insensitively, whatever page and per_page
\* are; a corpus of well-formed records always gets such an answer.
C1_FoundIsMatchCount ==
    SearchAnswered =>
        /\ AllRecordsHaveText(corpus) => sresp.status = 200
        /\ sresp.status = 200 => sresp.found = MatchCount(corpus, sreq.q)

\* A corpus of three records, two of them matching, one of these only when
\* case is ignored, and a page that does not show all the matches.
C1_Witness ==
    /\ SearchAnswered
    /\ sresp.status = 200
    /\ Len(corpus) = 3
    /\ sresp.found = 2
    /\ Len(sresp.hits) < sresp.found
    /\ \E i \in 1..Len(corpus) :
           /\ IsMatchingRecord(sreq.q, corpus[i])
           /\ ~StrIn(sreq.q, corpus[i].text)

\* The 0-based corpus indices of the matching records, in corpus order.
MatchingLines(lines, q) ==
    SelectSeq([i \in 1..Len(lines) |-> i - 1],
              LAMBDA i : IsMatchingRecord(q, lines[i + 1]))

ExpectedHitCount(found, page, per_page) ==
    Max(0, Min(per_page, found - per_page * (page - 1)))

\* C2: for a non-empty query, page >= 1 and per_page >= 0, the hits are the
\* matching records of 0-based rank per_page*(page-1) .. per_page*page - 1
\* among all matches, in corpus order; their number is
\* min(per_page, found - per_page*(page-1)) clamped at 0.
C2_HitsAreThePage ==
    (SearchAnswered /\ sresp.status = 200 /\ sreq.page >= 1 /\ sreq.per_page >= 0) =>
        LET ranked == MatchingLines(corpus, sreq.q)
            first == sreq.per_page * (sreq.page - 1)
        IN  /\ Len(sresp.hits) =
                   ExpectedHitCount(Len(ranked), sreq.page, sreq.per_page)
            /\ \A k \in 1..Len(sresp.hits) :
                   /\ sresp.hits[k].line = ranked[first + k]
                   /\ sresp.hits[k].document = corpus[ranked[first + k] + 1]

\* The second page of size one over three matches: the single hit is the
\* match of rank 1.
C2_Witness ==
    /\ SearchAnswered
    /\ sresp.status = 200
    /\ sreq.page = 2
    /\ sreq.per_page = 1
    /\ sresp.found = 3
    /\ Len(sresp.hits) = 1
    /\ sresp.hits[1].line = 1

MarkCount(snippet) ==
    Cardinality({ k \in 1..Len(snippet) : snippet[k] = "<mark>" })

HasLiteral(q, t) == StrIn(q, t)

FirstLiteral(q, t) ==
    CHOOSE i \in 1..Len(t) :
        /\ SubSeq(t, i, i + Len(q) - 1) = q
        /\ \A j \in 1..(i - 1) : SubSeq(t, j, j + Len(q) - 1) # q

\* The text with its first literal occurrence of q wrapped in a marker pair.
WrapFirst(q, t) ==
    IF ~HasLiteral(q, t) THEN t
    ELSE LET i == FirstLiteral(q, t)
         IN  SubSeq(t, 1, i - 1) \o <<"<mark>">> \o q \o <<"</mark>">>
                 \o SubSeq(t, i + Len(q), Len(t))

\* C3: every returned hit carries the record's text with the first literal
\* occurrence of the raw query wrapped in <mark>...</mark>, so its snippet
\* holds exactly one marker pair.
C3_SnippetHasOneMarker ==
    (SearchAnswered /\ sresp.status = 200) =>
        \A k \in 1..Len(sresp.hits) :
            /\ MarkCount(sresp.hits[k].snippet) = 1
            /\ sresp.hits[k].snippet =
                   WrapFirst(sreq.q, sresp.hits[k].document.text)

\* C17: for a non-empty query, a malformed line or a record without a text
\* field anywhere in the corpus, also after the last record of the
\* requested page, gives status 500 with an error body and no hits; hence
\* a response with hits was computed from a corpus every line of which
\* was parsed.
C17_BadLineAnywhereIs500 ==
    (SearchAnswered /\ ~AllRecordsHaveText(corpus)) =>
        /\ sresp.status = 500
        /\ sresp.body = "error"
        /\ sresp.hits = <<>>

\* The first record matches and fills page 1; the bad line is the last of
\* the corpus, after the records of the requested page.
C17_Witness ==
    /\ SearchAnswered
    /\ Len(corpus) = 3
    /\ IsMatchingRecord(sreq.q, corpus[1])
    /\ corpus[2].kind = "doc"
    /\ corpus[3].kind = "notext"
    /\ sreq.page = 1
    /\ sreq.per_page = 1
    /\ sresp.status = 500

\* ========================================================================
\* /highlight
\* ========================================================================

\* Bound of the highlight model: the longest source document.
MaxDocPages == 2

\* A query-string value is a sequence of tokens: a bracket, a comma, a
\* number literal or some other text.
FileNames == { NoArg, Arg(<<>>), Arg(<<"coll", "_", "001.pdf">>) }

BboxStrings ==
    { NoArg,
      Arg(<<>>),
      Arg(<<"[", "1.0", ",", "2.0", ",", "3.0", ",", "4.0", "]">>),
      Arg(<<"1.0", ",", "2.0", ",", "3.0", ",", "4.0">>),
      Arg(<<"[", "1.0", ",", "x", ",", "3.0", ",", "4.0", "]">>),
      Arg(<<"[", "]">>),
      Arg(<<"x">>),
      Arg(<<"[", "1.0", ",", "2.0", "]">>) }

SearchTexts == { <<>>, <<"fair">> }

HighlightRequests ==
    [file : FileNames, bbox : BboxStrings,
     page : (-1)..(MaxDocPages + 2), text : SearchTexts]

\* The collaborators: get_object fails, returns no bytes or returns bytes;
\* the bytes are a PDF of `pages` pages or not a PDF; the annotation calls
\* of the PDF library succeed or raise; the page holds `occurrences`
\* occurrences of the text token.
HighlightEnvs ==
    [fetch : {"error", "empty", "data"}, pdf : {"corrupt", "ok"},
     pages : 1..MaxDocPages, annot : {"ok", "raises"}, occurrences : 0..1]

\* Python truthiness of a query-string argument: None and '' are falsy.
Truthy(arg) == arg.given /\ arg.str # <<>>

\* str.strip('[]')
IsBracket(c) == c = "[" \/ c = "]"

RECURSIVE LStrip(_)
LStrip(s) ==
    IF s # <<>> /\ IsBracket(Head(s)) THEN LStrip(Tail(s)) ELSE s

RECURSIVE RStrip(_)
RStrip(s) ==
    IF s # <<>> /\ IsBracket(s[Len(s)])
    THEN RStrip(SubSeq(s, 1, Len(s) - 1))
    ELSE s

Strip(s) == RStrip(LStrip(s))

\* str.split(','): the pieces between the commas; '' splits into [''].
RECURSIVE Split(_, _, _)
Split(s, piece, acc) ==
    IF s = <<>> THEN Append(acc, piece)
    ELSE IF Head(s) = "," THEN Split(Tail(s), <<>>, Append(acc, piece))
    ELSE Split(Tail(s), Append(piece, Head(s)), acc)

NumberLiterals == { "1.0", "2.0", "3.0", "4.0" }

\* float(x) raises ValueError unless x is a number literal; the faulty
\* variant accepts every piece.
FloatRaisesNever(piece) == FALSE

FloatRaises(piece) == ~(Len(piece) = 1 /\ piece[1] \in NumberLiterals)

\* bbox = [float(x) for x in bbox.strip('[]').split(',')]
ParseBbox(str) ==
    LET pieces == Split(Strip(str), <<>>, <<>>)
    IN  [raised |-> \E k \in 1..Len(pieces) : FloatRaises(pieces[k]),
         count |-> Len(pieces)]

\* Lines 198-200: the range check and doc[page - 1].  The library accepts
\* every index below the page count and counts a negative index from the
\* end of the document.  The faulty variant wraps an index beyond the end
\* as well.
SelectPageWrapping(page, n) == [raised |-> FALSE, index |-> (page - 1) % n]

SelectPage(page, n) ==
    IF page > n THEN [raised |-> TRUE, index |-> 0]
    ELSE IF ~(page - 1 < n) THEN [raised |-> TRUE, index |-> 0]
    ELSE [raised |-> FALSE, index |-> (page - 1) % n]

\* new_page.add_rect_annot(bbox) needs four coordinates.
RectAnnotRaises(count) == count # 4

\* A response of /highlight.  `opened` and `closed` are the PDF document
\* objects the handler opened and closed; `shown` is the 0-based index of
\* the source page drawn on the returned page; `highlights` is the number
\* of highlight annotations.
HighlightResp(status, msg, opened, closed, shown, highlights) ==
    [status |-> status, msg |-> msg, opened |-> opened, closed |-> closed,
     shown |-> shown, highlights |-> highlights]

HighlightFailure(status, msg, opened) ==
    HighlightResp(status, msg, opened, {}, -1, 0)

\* The handler of /highlight.
highlight(req, env) ==
    IF ~(Truthy(req.file) /\ Truthy(req.bbox))
    THEN HighlightFailure(400, "Missing parameters", {})
    ELSE IF env.fetch # "data"
    THEN HighlightFailure(404, "Error fetching PDF", {})
    ELSE LET bbox == ParseBbox(req.bbox.str)
             page == SelectPage(req.page, env.pages)
         IN  IF bbox.raised
             THEN HighlightFailure(400, "Invalid bbox format", {})
             ELSE IF env.pdf # "ok"
             THEN HighlightFailure(500, "Error processing PDF", {})
             ELSE IF page.raised
             THEN HighlightFailure(500, "Error processing PDF", {"doc"})
             ELSE IF RectAnnotRaises(bbox.count) \/ env.annot = "raises"
             THEN HighlightFailure(500, "Error processing PDF",
                                   {"doc", "new_doc"})
             ELSE HighlightResp(200, "pdf", {"doc", "new_doc"},
                                {"doc", "new_doc"}, page.index,
                                IF req.text # <<>> THEN env.occurrences
                                ELSE 0)

HighlightInit ==
    /\ hreq \in HighlightRequests
    /\ henv \in HighlightEnvs
    /\ hresp = NoResp
    /\ SearchIdle
    /\ ArchiveIdle
    /\ SyncIdle
    /\ SubmitIdle
    /\ KeepAliveIdle
    /\ IndexIdle

\* One request to /highlight is handled.
Highlight ==
    /\ hresp = NoResp
    /\ hresp' = highlight(hreq, henv)
    /\ UNCHANGED <<hreq, henv>>
    /\ UNCHANGED notHighlightVars

HighlightNext == Highlight

SpecHighlight == HighlightInit /\ [][HighlightNext]_vars

\* ------------------------------------------------------------------------
\* Properties of /highlight
\* ------------------------------------------------------------------------

HighlightAnswered == hresp # NoResp

\* The handler fetched a source document that is a PDF of henv.pages pages.
SourceFetched ==
    /\ Truthy(hreq.file)
    /\ Truthy(hreq.bbox)
    /\ henv.fetch = "data"
    /\ henv.pdf = "ok"

PageBeyondEnd == SourceFetched /\ hreq.page > henv.pages

\* The bounding box, stripped of brackets, is a comma-separated list of
\* number literals.
IsListOfNumbers(str) ==
    LET pieces == Split(Strip(str), <<>>, <<>>)
    IN  \A k \in 1..Len(pieces) :
            Len(pieces[k]) = 1 /\ pieces[k][1] \in NumberLiterals

\* C4 as stated: every request whose page is greater than the number of
\* pages of the fetched source document gets status 500.
C4_PageBeyondEndIs500 ==
    (HighlightAnswered /\ PageBeyondEnd) => hresp.status = 500

\* C4 as amended: a request whose page is greater than the number of pages
\* of the fetched source document never gets a successful PDF; it gets
\* status 500 when its bounding box parses as numbers, and status 400 (the
\* bounding box is checked first) when it does not.
C4_PageBeyondEndIsRejected ==
    (HighlightAnswered /\ PageBeyondEnd) =>
        /\ hresp.status # 200
        /\ IsListOfNumbers(hreq.bbox.str) => hresp.status = 500
        /\ ~IsListOfNumbers(hreq.bbox.str) => hresp.status = 400

\* Page 3 of a two-page document with a well-formed bounding box: the
\* source document was opened and the answer is the processing error.
C4_Witness ==
    /\ HighlightAnswered
    /\ PageBeyondEnd
    /\ henv.pages = 2
    /\ hreq.page = 3
    /\ IsListOfNumbers(hreq.bbox.str)
    /\ hresp.status = 500
    /\ hresp.opened = {"doc"}

\* C5: every PDF document object opened while handling a request is closed
\* before the response is returned, on every path through the handler.
C5_OpenedDocumentsAreClosed ==
    HighlightAnswered => hresp.opened \subseteq hresp.closed

\* C6 as stated: a request with a filename and a bounding box that is not a
\* list of numbers gets status 400, whatever the fetch of the source PDF did.
C6_BadBboxIs400 ==
    (HighlightAnswered /\ Truthy(hreq.file) /\ hreq.bbox.given
         /\ ~IsListOfNumbers(hreq.bbox.str)) =>
        hresp.status = 400

\* C6 as amended: such a request gets status 400 when its bounding box is
\* the empty string or the source PDF was fetched with non-empty data, and
\* status 404 when the bounding box is non-empty and the fetch failed or
\* returned no data.
C6_BadBboxIs400AfterFetch ==
    (HighlightAnswered /\ Truthy(hreq.file) /\ hreq.bbox.given
         /\ ~IsListOfNumbers(hreq.bbox.str)) =>
        IF hreq.bbox.str = <<>> \/ henv.fetch = "data"
        THEN hresp.status = 400
        ELSE hresp.status = 404

\* A bounding box with a non-numeric coordinate, a source PDF that was
\* fetched and is well-formed, a page in range: the answer is 400.
C6_Witness ==
    /\ HighlightAnswered
    /\ Truthy(hreq.file)
    /\ Truthy(hreq.bbox)
    /\ Len(hreq.bbox.str) > 1
    /\ ~IsListOfNumbers(hreq.bbox.str)
    /\ SourceFetched
    /\ hreq.page = 1
    /\ hresp.status = 400
    /\ hresp.msg = "Invalid bbox format"

\* C22: a successful response is given only for 1 <= page <= number of
\* pages of the source document, and the returned page then shows the
\* source page of 0-based index page - 1; a page of 0 or below is never
\* answered with another page of the document.
C22_SuccessShowsTheAskedPage ==
    (HighlightAnswered /\ hresp.status = 200) =>
        /\ 1 <= hreq.page
        /\ hreq.page <= henv.pages
        /\ hresp.shown = hreq.page - 1

\* ========================================================================
\* /generate_archive
\* ========================================================================

\* Bounds of the archive model: the last day of the clock and the number of
\* keys on one page of the storage listing.
MaxTime == 7

ListPageSize == 2

\* A key of the bucket is the sequence of its path segments after the
\* prefix tva/; <<"">> is the prefix key tva/ itself.  The sequence lists
\* the keys in the byte order of the full key, which is the order of a
\* storage listing and of sorted().
AllKeysSorted ==
    << <<"">>, <<"a.pdf">>, <<"d", "b.pdf">>, <<"d", "e", "c.pdf">>,
       <<"ws.code-workspace">> >>

DirNamesSorted == << "d", "e" >>

ArchiveKeys == SeqRange(AllKeysSorted)

Buckets == SUBSET ArchiveKeys

Passwords == { NoArg, Arg(<<>>), Arg(<<"wrong">>), Arg(<<"secret">>) }

DirectKeys == { NoArg, Arg(<<"secret">>) }

\* `not password or password != direct_key` is the refusal; the faulty
\* variant drops `not password`.
AuthorizedByEquality(password, direct_key) == password = direct_key

Authorized(password, direct_key) ==
    ~(~Truthy(password) \/ password # direct_key)

\* `file_age.days < 6`, with the clock in days; the faulty variant allows
\* the sixth day.
CacheFreshInclusive(age) == age <= 6

CacheFresh(age) == age < 6

\* The keys of the bucket in listing order, and the number of listing calls
\* a complete listing takes (an empty listing is one call).
Listing(keys) == SelectSeq(AllKeysSorted, LAMBDA k : k \in keys)

ListingCalls(keys) ==
    Max(1, (Cardinality(keys) + ListPageSize - 1) \div ListPageSize)

IsPrefixKey(key) == key = <<"">>

IsCodeWorkspace(key) == key[Len(key)] = "ws.code-workspace"

\* get_all_files_in_tva_for_archive: the listed keys without the prefix key
\* and the .code-workspace files.  failAt = 0: every listing call succeeds;
\* failAt = j > 0: call j raises, and the keys of the pages before it are
\* returned.
get_all_files_in_tva_for_archive(keys, failAt) ==
    LET listed == IF failAt = 0 THEN Listing(keys)
                  ELSE SubSeq(Listing(keys), 1,
                              Min((failAt - 1) * ListPageSize, Cardinality(keys)))
    IN  SelectSeq(listed, LAMBDA k : ~IsPrefixKey(k) /\ ~IsCodeWorkspace(k))

\* path_parts[:-1] of a key, and the directories on the way to it.
DirOf(key) == SubSeq(key, 1, Len(key) - 1)

DirsTo(dir) == { SubSeq(dir, 1, k) : k \in 1..Len(dir) }

\* build_tree_structure_for_archive: the nested dictionaries, flattened to
\* the files of the root, the set of directory paths and the files of
\* each directory.
build_tree_structure_for_archive(files) ==
    LET dirs == UNION { DirsTo(DirOf(files[k])) : k \in 1..Len(files) }
    IN  [rootFiles |-> SelectSeq(files, LAMBDA k : Len(k) = 1),
         dirs |-> dirs,
         dirFiles |-> [d \in dirs |->
                          SelectSeq(files, LAMBDA k : Len(k) > 1 /\ DirOf(k) = d)]]

\* sorted(..., key=lambda x: x['key'])
SortedByKey(files) == SelectSeq(AllKeysSorted, LAMBDA k : k \in SeqRange(files))

RECURSIVE Concat(_)
Concat(seqs) == IF seqs = <<>> THEN <<>> ELSE Head(seqs) \o Concat(Tail(seqs))

\* The files generate_tree_html_for_archive asks a signed URL for: those of
\* the root, then those of every directory directly under the root.  The
\* function does not descend into the directories below these.
RenderedFiles(tree) ==
    SortedByKey(tree.rootFiles) \o
    Concat([i \in 1..Len(DirNamesSorted) |->
               IF <<DirNamesSorted[i]>> \in tree.dirs
               THEN SortedByKey(tree.dirFiles[<<DirNamesSorted[i]>>])
               ELSE <<>>])

\* generate_tree_html_for_archive: one link per rendered file whose signed
\* URL was generated (generate_signed_url_for_archive returned no None).
generate_tree_html_for_archive(tree, failed) ==
    SelectSeq(RenderedFiles(tree), LAMBDA k : k \notin failed)

\* generate_signed_url_for_archive: ExpiresIn, in days; the faulty variant
\* signs for five days at most.
UrlLifetimeFiveDays(expiration_days) ==
    Min(expiration_days * 24 * 60 * 60, 432000) \div (24 * 60 * 60)

UrlLifetime(expiration_days) ==
    Min(expiration_days * 24 * 60 * 60, 604800) \div (24 * 60 * 60)

\* generate_archive_html: the page with its links and its Total Files line.
generate_archive_html(files, failed, time) ==
    [kind |-> "page",
     links |-> generate_tree_html_for_archive(
                   build_tree_structure_for_archive(files), failed),
     total |-> Len(files),
     signedAt |-> time,
     expires |-> time + UrlLifetime(7)]

ArchiveInit ==
    /\ now = 0
    /\ directKey \in DirectKeys
    /\ bucket \in Buckets
    /\ afile = NoFile
    /\ areq = [p \in ArchiveProcs |-> IdleRequest]
    /\ SearchIdle
    /\ HighlightIdle
    /\ SyncIdle
    /\ SubmitIdle
    /\ KeepAliveIdle
    /\ IndexIdle

\* A day passes.  A request is handled within the day it arrives on.
Tick ==
    /\ now < MaxTime
    /\ \A p \in ArchiveProcs : areq[p].pc = "idle"
    /\ now' = now + 1
    /\ UNCHANGED <<directKey, bucket, afile, areq>>
    /\ UNCHANGED notArchiveVars

\* Lines 785-798: the key is checked; an authorized request serves the
\* cached file when it exists and is fresh, and goes on to generate
\* otherwise.
ArchiveStart(p) ==
    /\ areq[p].pc = "idle"
    /\ \E password \in Passwords :
          areq' = [areq EXCEPT ![p] =
              IF ~Authorized(password, directKey)
              THEN [@ EXCEPT !.pc = "done", !.password = password,
                             !.status = 401]
              ELSE IF afile.exists /\ CacheFresh(now - afile.mtime)
              THEN [@ EXCEPT !.pc = "done", !.password = password,
                             !.sawExists = TRUE,
                             !.sawOld = now - afile.mtime >= 6,
                             !.readCache = TRUE, !.status = 200,
                             !.body = afile.content]
              ELSE [@ EXCEPT !.pc = "list", !.password = password,
                             !.sawExists = afile.exists,
                             !.sawOld = afile.exists
                                        /\ now - afile.mtime >= 6,
                             !.readCache = afile.exists]]
    /\ UNCHANGED <<now, directKey, bucket, afile>>
    /\ UNCHANGED notArchiveVars

\* Line 570: the storage listing, which may fail at any of its calls.
ArchiveList(p) ==
    /\ areq[p].pc = "list"
    /\ \E failAt \in 0..ListingCalls(bucket) :
          areq' = [areq EXCEPT ![p] =
              [@ EXCEPT !.pc = "render",
                        !.files = get_all_files_in_tva_for_archive(bucket, failAt),
                        !.listFailed = failAt # 0,
                        !.calls = @ \cup {"list"}]]
    /\ UNCHANGED <<now, directKey, bucket, afile>>
    /\ UNCHANGED notArchiveVars

\* Lines 574-778: tree, signed URLs (any of which may fail) and page.
ArchiveRender(p) ==
    /\ areq[p].pc = "render"
    /\ LET asked == SeqRange(RenderedFiles(
                        build_tree_structure_for_archive(areq[p].files)))
       IN  \E failed \in SUBSET asked :
              areq' = [areq EXCEPT ![p] =
                  [@ EXCEPT !.pc = "open",
                            !.html = generate_archive_html(areq[p].files, failed, now),
                            !.files = <<>>,
                            !.signFailed = failed # {},
                            !.calls = IF asked = {} THEN @
                                      ELSE @ \cup {"sign"}]]
    /\ UNCHANGED <<now, directKey, bucket, afile>>
    /\ UNCHANGED notArchiveVars

\* Line 804: open(archive_file, 'w') creates or truncates the file.
ArchiveOpen(p) ==
    /\ areq[p].pc = "open"
    /\ afile' = [exists |-> TRUE, mtime |-> now, content |-> EmptyContent]
    /\ areq' = [areq EXCEPT ![p] = [@ EXCEPT !.pc = "write", !.wrote = TRUE]]
    /\ UNCHANGED <<now, directKey, bucket>>
    /\ UNCHANGED notArchiveVars

\* Line 805 and the end of the with block: the page is written.
ArchiveWrite(p) ==
    /\ areq[p].pc = "write"
    /\ afile' = [exists |-> TRUE, mtime |-> now, content |-> areq[p].html]
    /\ areq' = [areq EXCEPT ![p] =
           [@ EXCEPT !.pc = "send", !.html = EmptyContent]]
    /\ UNCHANGED <<now, directKey, bucket>>
    /\ UNCHANGED notArchiveVars

\* Line 810: send_file answers with what the file holds now.
ArchiveSend(p) ==
    /\ areq[p].pc = "send"
    /\ areq' = [areq EXCEPT ![p] =
           [@ EXCEPT !.pc = "done", !.status = 200, !.body = afile.content]]
    /\ UNCHANGED <<now, directKey, bucket, afile>>
    /\ UNCHANGED notArchiveVars

\* The response has been delivered; the next request may arrive.
ArchiveDone(p) ==
    /\ areq[p].pc = "done"
    /\ areq' = [areq EXCEPT ![p] = IdleRequest]
    /\ UNCHANGED <<now, directKey, bucket, afile>>
    /\ UNCHANGED notArchiveVars

ArchiveNext ==
    \/ Tick
    \/ \E p \in ArchiveProcs : ArchiveStart(p)
    \/ \E p \in ArchiveProcs : ArchiveList(p)
    \/ \E p \in ArchiveProcs : ArchiveRender(p)
    \/ \E p \in ArchiveProcs : ArchiveOpen(p)
    \/ \E p \in ArchiveProcs : ArchiveWrite(p)
    \/ \E p \in ArchiveProcs : ArchiveSend(p)
    \/ \E p \in ArchiveProcs : ArchiveDone(p)

SpecArchive == ArchiveInit /\ [][ArchiveNext]_vars

\* ------------------------------------------------------------------------
\* Properties of /generate_archive
\* ------------------------------------------------------------------------

\* The caller supplied a non-empty key equal to the operator secret.
KeyMatches(password) ==
    password.given /\ password.str # <<>> /\ directKey.given
        /\ password.str = directKey.str

Regenerated(r) == "list" \in r.calls /\ r.wrote

\* C7: a request with an absent, empty or non-matching key is answered 401
\* and makes no storage call and neither reads nor writes the cached file.
C7_UnauthorizedDoesNothing ==
    \A p \in ArchiveProcs :
        (areq[p].pc # "idle" /\ ~KeyMatches(areq[p].password)) =>
            /\ areq[p].pc = "done"
            /\ areq[p].status = 401
            /\ areq[p].calls = {}
            /\ ~areq[p].wrote
            /\ ~areq[p].readCache

\* A wrong key is refused while the secret is set and a cached archive,
\* old enough to be regenerated, lies on disk.
C7_Witness ==
    \E p \in ArchiveProcs :
        /\ areq[p].pc = "done"
        /\ areq[p].password = Arg(<<"wrong">>)
        /\ directKey = Arg(<<"secret">>)
        /\ areq[p].status = 401
        /\ afile.exists
        /\ now - afile.mtime >= 6

\* C8: an authorized request regenerates the archive (storage listing and
\* overwrite of the cached file) if and only if no cached file exists or
\* the cached file is 6 or more days old; otherwise it serves the cached
\* file unchanged, with no storage call and no write.
C8_RegeneratesIffStale ==
    /\ [][\A p \in ArchiveProcs :
            (areq[p].pc = "idle" /\ areq'[p].pc # "idle"
                 /\ KeyMatches(areq'[p].password)) =>
                IF ~afile.exists \/ now - afile.mtime >= 6
                THEN areq'[p].pc = "list"
                ELSE /\ areq'[p].pc = "done"
                     /\ areq'[p].status = 200
                     /\ areq'[p].body = afile.content
                     /\ afile' = afile]_vars
    /\ [](\A p \in ArchiveProcs :
            (areq[p].pc = "done" /\ KeyMatches(areq[p].password)) =>
                /\ Regenerated(areq[p]) <=>
                       (~areq[p].sawExists \/ areq[p].sawOld)
                /\ ~Regenerated(areq[p]) =>
                       areq[p].calls = {} /\ ~areq[p].wrote)

\* On day 6 one request has regenerated a cached file that was 6 days old,
\* and later the same day another request was served the new file from the
\* cache.
C8_Witness ==
    \E p, q \in ArchiveProcs :
        /\ areq[p].pc = "done"
        /\ KeyMatches(areq[p].password)
        /\ areq[p].sawExists
        /\ areq[p].sawOld
        /\ Regenerated(areq[p])
        /\ areq[q].pc = "done"
        /\ KeyMatches(areq[q].password)
        /\ ~Regenerated(areq[q])
        /\ areq[q].status = 200
        /\ areq[q].body = afile.content
        /\ afile.content.kind = "page"
        /\ afile.mtime = now
        /\ now = 6

\* The files of a complete listing of the bucket.
ListedFiles ==
    { k \in bucket : k # <<"">> /\ k[Len(k)] # "ws.code-workspace" }

\* C9: a page rendered from a complete listing, every signed URL of which
\* was generated, embeds exactly one link for every listed file, at
\* whatever depth the file lies: the number of links is Total Files.
C9_OneLinkPerListedFile ==
    \A p \in ArchiveProcs :
        (areq[p].pc = "open" /\ ~areq[p].listFailed /\ ~areq[p].signFailed) =>
            /\ Len(areq[p].html.links) = areq[p].html.total
            /\ SeqRange(areq[p].html.links) = ListedFiles

\* C15: a failure of the storage listing or of the generation of a signed
\* URL during a regeneration aborts the request: the cached file is not
\* opened for writing and the response is an error.
C15_StorageFailureAborts ==
    \A p \in ArchiveProcs :
        (areq[p].listFailed \/ areq[p].signFailed) =>
            /\ ~areq[p].wrote
            /\ areq[p].pc = "done" => areq[p].status = 500

\* The request p has been answered with an archive page that has links.
ServedLinks(p) ==
    /\ areq[p].pc = "done"
    /\ areq[p].status = 200
    /\ areq[p].body.links # <<>>

\* C16: the links of a served page, freshly generated or read from the
\* cached file, expire after the time of serving: they were signed for
\* seven days and the cached file is served for less than six.
C16_ServedLinksAreNotExpired ==
    \A p \in ArchiveProcs :
        ServedLinks(p) =>
            /\ areq[p].body.expires = areq[p].body.signedAt + 7
            /\ areq[p].body.expires > now

\* A page with links is served from the cached file on the last day the
\* file counts as fresh, five days after its links were signed.
C16_Witness ==
    \E p \in ArchiveProcs :
        /\ ServedLinks(p)
        /\ ~areq[p].wrote
        /\ areq[p].readCache
        /\ now = areq[p].body.signedAt + 5
        /\ now = afile.mtime + 5

\* C20: with requests handled concurrently, the body of every successful
\* response is a page as one generation run wrote it, never the content of
\* a file another request has opened for writing and not written yet.
C20_ServedBodyIsAPage ==
    \A p \in ArchiveProcs :
        (areq[p].pc = "done" /\ areq[p].status = 200) =>
            areq[p].body.kind = "page"

\* ========================================================================
\* download_jsonl_cache
\* ========================================================================

\* Bounds of the sync model: the number of versions an object goes through
\* and the number of keys on one page of the storage listing.
MaxVersion == 2

SyncPageSize == 1

\* os.path.basename(key) and key.endswith('.jsonl')
Basename(key) == key[Len(key)]

\* The faulty variant takes only x.jsonl for a .jsonl object.
EndsWithJsonlOnlyX(key) == Basename(key) = "x.jsonl"

EndsWithJsonl(key) == Basename(key) \in { "x.jsonl", "y.jsonl" }

\* os.path.exists(local_path); the faulty variant never finds the file.
ExistsNever(content) == FALSE

Exists(content) == content.kind # "absent"

\* The objects a listing call returns after the continuation point
\* `cursor`: the next SyncPageSize existing keys, and whether more follow.
ExistingAfter(cursor) ==
    SelectSeq([i \in 1..Len(SyncKeysSorted) |-> i],
              LAMBDA i : i > cursor /\ remote[i] > 0)

PageItems(cursor) ==
    SubSeq(ExistingAfter(cursor), 1, Min(SyncPageSize, Len(ExistingAfter(cursor))))

PageTruncated(cursor) == Len(ExistingAfter(cursor)) > SyncPageSize

\* Where a run goes on after an object: the next object of the page, the
\* next page, or `return filenames`.
Continue(r) ==
    IF r.items # <<>> THEN [r EXCEPT !.pc = "item", !.key = 0, !.body = 0]
    ELSE IF r.more THEN [r EXCEPT !.pc = "page", !.key = 0, !.body = 0]
    ELSE [r EXCEPT !.pc = "done", !.key = 0, !.body = 0,
                   !.result = r.filenames, !.filenames = <<>>]

\* Lines 373-375: a listing call raised; the run returns an empty list.
\* The faulty variant returns the names recorded so far.
ListingFailedReturnsNames(r) ==
    [r EXCEPT !.pc = "done", !.items = <<>>, !.more = FALSE,
              !.filenames = <<>>, !.result = r.filenames, !.listFailed = TRUE]

ListingFailed(r) ==
    [r EXCEPT !.pc = "done", !.items = <<>>, !.more = FALSE,
              !.filenames = <<>>, !.result = <<>>, !.listFailed = TRUE]

\* What a file holds after `bytes` were written through a handle opened
\* when the file was empty: a second writer may have filled the file in
\* the meantime, and a shorter write over it leaves the tail of the other.
WriteOver(prior, v) ==
    IF prior.kind = "empty" \/ prior = Full(v) THEN { Full(v) }
    ELSE { Full(v), Garbled }

SyncInit ==
    /\ remote \in [1..Len(SyncKeysSorted) -> 0..1]
    /\ local = [f \in LocalNames |-> Absent]
    /\ sync = [p \in SyncProcs |-> IdleRun]
    /\ prev = NoPrev
    /\ SearchIdle
    /\ HighlightIdle
    /\ ArchiveIdle
    /\ SubmitIdle
    /\ KeepAliveIdle
    /\ IndexIdle

\* An object is uploaded to the bucket or replaced by a new version; every
\* run under way has then seen the bucket change.  x.jsonl is the object
\* that is replaced by newer versions; the other objects are uploaded once.
RemotePut(i) ==
    /\ remote[i] < (IF Basename(SyncKeysSorted[i]) = "x.jsonl"
                    THEN MaxVersion ELSE 1)
    /\ remote' = [remote EXCEPT ![i] = @ + 1]
    /\ sync' = [p \in SyncProcs |->
           [sync[p] EXCEPT !.row = "no", !.changed = sync[p].pc # "idle"]]
    /\ prev' = NoPrev
    /\ UNCHANGED local
    /\ UNCHANGED notSyncVars

\* Lines 348-351: a run of download_jsonl_cache starts.  The run is the
\* first of a row when no other run is under way, and the second of a row
\* when, in addition, the run before it was left alone and the bucket has
\* not changed since that run started.
SyncStart(p) ==
    /\ sync[p].pc = "idle"
    /\ LET alone == \A q \in SyncProcs \ {p} : sync[q].pc = "idle"
       IN  /\ sync' = [q \in SyncProcs |->
                  IF q = p
                  THEN [IdleRun EXCEPT !.pc = "page",
                                       !.row = IF ~alone THEN "no"
                                               ELSE IF prev.valid THEN "second"
                                               ELSE "first"]
                  ELSE [sync[q] EXCEPT !.row = "no"]]
           /\ prev' = IF alone THEN prev ELSE NoPrev
    /\ UNCHANGED <<remote, local>>
    /\ UNCHANGED notSyncVars

\* Line 352: the paginator fetches the next page of the listing; the call
\* may raise, which ends the run with an empty list (lines 373-375).
SyncListPage(p) ==
    /\ sync[p].pc = "page"
    /\ \/ sync' = [sync EXCEPT ![p] =
              Continue([@ EXCEPT !.items = PageItems(sync[p].cursor),
                                 !.more = PageTruncated(sync[p].cursor),
                                 !.cursor = IF PageItems(sync[p].cursor) = <<>>
                                            THEN sync[p].cursor
                                            ELSE SeqMax(PageItems(sync[p].cursor))])]
       \/ sync' = [sync EXCEPT ![p] = ListingFailed(sync[p])]
    /\ UNCHANGED <<remote, local, prev>>
    /\ UNCHANGED notSyncVars

\* Lines 353-363: the next object of the page: skipped unless it is a
\* .jsonl object, recorded, and skipped when a local file of its name
\* exists.
SyncItem(p) ==
    /\ sync[p].pc = "item"
    /\ LET k == Head(sync[p].items)
           name == Basename(SyncKeysSorted[k])
           rest == [sync[p] EXCEPT !.items = Tail(@)]
       IN  sync' = [sync EXCEPT ![p] =
               IF ~EndsWithJsonl(SyncKeysSorted[k]) THEN Continue(rest)
               ELSE IF Exists(local[name])
               THEN Continue([rest EXCEPT !.filenames = Append(@, name)])
               ELSE [rest EXCEPT !.filenames = Append(@, name),
                                 !.pc = "get", !.key = k]]
    /\ UNCHANGED <<remote, local, prev>>
    /\ UNCHANGED notSyncVars

\* Line 366: get_object answers with the current version of the object,
\* or raises (lines 370-371) and the run goes on with the next object.
SyncGet(p) ==
    /\ sync[p].pc = "get"
    /\ \/ sync' = [sync EXCEPT ![p] =
              [@ EXCEPT !.pc = "open", !.body = remote[sync[p].key]]]
       \/ sync' = [sync EXCEPT ![p] =
              Continue([@ EXCEPT !.failed =
                            @ \cup {Basename(SyncKeysSorted[sync[p].key])}])]
    /\ UNCHANGED <<remote, local, prev>>
    /\ UNCHANGED notSyncVars

\* Line 367: open(local_path, 'wb') creates the file or truncates it.
SyncOpen(p) ==
    /\ sync[p].pc = "open"
    /\ local' = [local EXCEPT ![Basename(SyncKeysSorted[sync[p].key])] = Empty]
    /\ sync' = [sync EXCEPT ![p] =
           [@ EXCEPT !.pc = "read",
                     !.opened = @ \cup {Basename(SyncKeysSorted[sync[p].key])}]]
    /\ UNCHANGED <<remote, prev>>
    /\ UNCHANGED notSyncVars

\* Line 368: the body is read and written to the file, or the read raises
\* and the file is left as it is.
SyncRead(p) ==
    /\ sync[p].pc = "read"
    /\ LET name == Basename(SyncKeysSorted[sync[p].key])
       IN  \/ \E content \in WriteOver(local[name], sync[p].body) :
                 /\ local' = [local EXCEPT ![name] = content]
                 /\ sync' = [sync EXCEPT ![p] =
                        Continue([@ EXCEPT !.wrote = @ \cup {name}])]
           \/ /\ sync' = [sync EXCEPT ![p] =
                     Continue([@ EXCEPT !.failed = @ \cup {name}])]
              /\ UNCHANGED local
    /\ UNCHANGED <<remote, prev>>
    /\ UNCHANGED notSyncVars

\* The run has returned; the next one may start.
SyncDone(p) ==
    /\ sync[p].pc = "done"
    /\ sync' = [sync EXCEPT ![p] = IdleRun]
    /\ prev' = IF sync[p].row = "no" THEN NoPrev
               ELSE [valid |-> TRUE, result |-> sync[p].result,
                     failed |-> sync[p].listFailed \/ sync[p].failed # {}]
    /\ UNCHANGED <<remote, local>>
    /\ UNCHANGED notSyncVars

SyncNext ==
    \/ \E i \in 1..Len(SyncKeysSorted) : RemotePut(i)
    \/ \E p \in SyncProcs : SyncStart(p)
    \/ \E p \in SyncProcs : SyncListPage(p)
    \/ \E p \in SyncProcs : SyncItem(p)
    \/ \E p \in SyncProcs : SyncGet(p)
    \/ \E p \in SyncProcs : SyncOpen(p)
    \/ \E p \in SyncProcs : SyncRead(p)
    \/ \E p \in SyncProcs : SyncDone(p)

SpecSync == SyncInit /\ [][SyncNext]_vars

\* ------------------------------------------------------------------------
\* Properties of download_jsonl_cache
\* ------------------------------------------------------------------------

\* The name of the local file the run is downloading.
Downloading(r) == Basename(SyncKeysSorted[r.key])

\* The run found the file f absent and has not finished its download.
Pending(r, f) == r.pc \in {"get", "open", "read"} /\ Downloading(r) = f

\* C10: a run starts the download of an object only if no local file of
\* its name exists at the time of the check; a local file is written only
\* by a run that found it absent at its check; so a file that is present
\* and that no run is in the middle of downloading is left as it is by
\* every step of every run, also after the remote object has changed.
C10_CachedFilesAreKept ==
    [][/\ \A p \in SyncProcs :
              (sync[p].pc = "item" /\ sync'[p].pc = "get") =>
                  local[Downloading(sync'[p])] = Absent
       /\ \A f \in LocalNames :
              local'[f] # local[f] =>
                  \E p \in SyncProcs :
                      /\ sync[p].pc \in {"open", "read"}
                      /\ Downloading(sync[p]) = f
                      /\ sync'[p] # sync[p]
       /\ \A f \in LocalNames :
              (local[f] # Absent /\ \A p \in SyncProcs : ~Pending(sync[p], f)) =>
                  local'[f] = local[f]]_vars

\* x.jsonl was cached at version 1, the remote object is at version 2, and
\* a run that listed x.jsonl has returned without writing it.
C10_Witness ==
    \E p \in SyncProcs :
        /\ sync[p].pc = "done"
        /\ "x.jsonl" \in SeqRange(sync[p].result)
        /\ "x.jsonl" \notin sync[p].wrote \cup sync[p].failed
        /\ local["x.jsonl"] = Full(1)
        /\ remote[2] = 2
        /\ \A q \in SyncProcs \ {p} : sync[q].pc = "idle"

\* The run p has returned, it followed directly a run that had been left
\* alone, no other run was under way in the meantime and the bucket has not
\* changed since the first of the two started.
SecondOfARow(p) == sync[p].pc = "done" /\ sync[p].row = "second"

\* The second run created or wrote no local file and returned the list the
\* first run returned.
SameAsFirst(p) == sync[p].opened = {} /\ sync[p].result = prev.result

RemoteJsonlNames ==
    LET idx == SelectSeq([i \in 1..Len(SyncKeysSorted) |-> i],
                         LAMBDA i : /\ remote[i] > 0
                                    /\ Basename(SyncKeysSorted[i]) \in LocalNames)
    IN  [k \in 1..Len(idx) |-> Basename(SyncKeysSorted[idx[k]])]

\* C12: a run whose listing did not fail, during which the bucket did not
\* change, returns the basename of every .jsonl object under the prefix,
\* the cached ones and the ones whose download failed included; and every
\* one of them was processed: it has a local file or its download failed.
C12_ReturnsEveryListedName ==
    \A p \in SyncProcs :
        (sync[p].pc = "done" /\ ~sync[p].listFailed /\ ~sync[p].changed) =>
            /\ sync[p].result = RemoteJsonlNames
            /\ sync[p].failed \subseteq SeqRange(sync[p].result)
            /\ \A f \in SeqRange(sync[p].result) :
                   f \in sync[p].failed \/ Exists(local[f])

\* The download of x.jsonl failed, y.jsonl was downloaded after it, and the
\* run returned both names.
C12_Witness ==
    \E p \in SyncProcs :
        /\ sync[p].pc = "done"
        /\ ~sync[p].listFailed
        /\ ~sync[p].changed
        /\ "x.jsonl" \in sync[p].failed
        /\ "y.jsonl" \in sync[p].wrote
        /\ sync[p].result = <<"x.jsonl", "y.jsonl">>

\* The listing of the run p failed and the run has returned.
ListingAborted(p) == sync[p].pc = "done" /\ sync[p].listFailed

\* C13, as stated: a run whose listing failed returns an empty list and
\* has created or written no local file.  It fails when the listing call
\* for a later page raises after an object of an earlier page was
\* downloaded.
C13_FailedListingLeavesNoTrace ==
    \A p \in SyncProcs :
        ListingAborted(p) => (sync[p].result = <<>> /\ sync[p].opened = {})

\* C13, amended: a run whose listing failed returns an empty list; the
\* files it opened before the failure are still in the cache directory.
C13_FailedListingReturnsEmpty ==
    \A p \in SyncProcs :
        ListingAborted(p) =>
            /\ sync[p].result = <<>>
            /\ \A f \in sync[p].opened : Exists(local[f])

\* The listing failed on a later page, after x.jsonl was downloaded.
C13_Witness ==
    \E p \in SyncProcs :
        /\ ListingAborted(p)
        /\ "x.jsonl" \in sync[p].wrote
        /\ local["x.jsonl"] = Full(1)
        /\ sync[p].result = <<>>

\* No run is under way: every run that started has returned.
SyncQuiet == \A p \in SyncProcs : sync[p].pc \in {"idle", "done"}

\* C21: once the runs have returned, whichever downloads failed on the way,
\* every file of the cache directory holds the full content of one version
\* of its remote object; no file is empty or holds bytes of two versions.
C21_LocalFilesAreWhole ==
    SyncQuiet =>
        \A f \in LocalNames :
            Exists(local[f]) =>
                \E v \in 1..MaxVersion : local[f] = Full(v)

\* ========================================================================
\* /submit
\* ========================================================================

\* MAX_LEN, the maximum length of the search text.
MAX_LEN == 64

\* Bound of the submit model: the number of lines of the upstream body.
MaxLines == 3

\* The text field of the JSON body: a string over a printable character
\* and a tab, among them one of MAX_LEN characters and one of MAX_LEN + 1.
SubmitTexts ==
    { <<>>, <<"a">>, <<"a", "TAB", "a">>,
      [i \in 1..MAX_LEN |-> "a"], [i \in 1..(MAX_LEN + 1) |-> "a"] }

\* The JSON body: none or empty, an object without `text`, an object whose
\* `text` is no string, an object with a string `text`.
SubmitRequests ==
    { [data |-> d, text |-> <<>>] : d \in {"none", "notext", "nonstr"} }
        \cup [data : {"str"}, text : SubmitTexts]

\* A line of the upstream body: blank, no JSON, a JSON number, or a JSON
\* object without a `results` key, with a `results` list of n entries, or
\* with `results` set to null.
UpstreamLines ==
    { [kind |-> k, results |-> "absent", n |-> 0] :
          k \in {"blank", "malformed", "number", "object"} }
        \cup { [kind |-> "object", results |-> "list", n |-> 1],
               [kind |-> "object", results |-> "null", n |-> 0] }

\* requests.post raises, or answers with an error status or with status
\* 200, and a body of lines.
UpstreamEnvs ==
    [post : {"raises", "http_error", "ok"},
     body : UNION { [1..n -> UpstreamLines] : n \in 0..MaxLines }]

\* c.isprintable() and the join of the printable characters (line 280).
IsPrintable(c) == c # "TAB"

Sanitize(text) == SelectSeq(text, IsPrintable)

\* Lines 304-308: the lines that are not blank, parsed; json.loads raises on
\* a line that is no JSON.
NonBlank(body) == SelectSeq(body, LAMBDA l : l.kind # "blank")

ParseRaises(body) == \E i \in 1..Len(body) : body[i].kind = "malformed"

\* Line 312: `len(search_results) > 1 and 'results' in search_results[1]`;
\* `in` raises TypeError on a number.
HasResults(search_results) ==
    Len(search_results) > 1 /\ search_results[2].results # "absent"

InRaises(search_results) ==
    Len(search_results) > 1 /\ search_results[2].kind = "number"

\* Line 321: len(actual_results) raises TypeError when `results` is null.
LenRaises(search_results) ==
    HasResults(search_results) /\ search_results[2].results = "null"

SubmitResp(status, body, query, results, calls) ==
    [status |-> status, body |-> body, query |-> query, results |-> results,
     calls |-> calls]

\* The handler of /submit; `calls` counts the calls of requests.post.
submit(req, env) ==
    IF req.data \in {"none", "notext"}
    THEN SubmitResp(400, "Missing input", <<>>, 0, 0)
    ELSE IF req.data = "nonstr" \/ Len(req.text) > MAX_LEN
    THEN SubmitResp(400, "Invalid input", <<>>, 0, 0)
    ELSE LET sanitized == Sanitize(req.text)
             search_results == NonBlank(env.body)
         IN  IF \/ env.post # "ok"
                \/ ParseRaises(env.body)
                \/ InRaises(search_results)
                \/ LenRaises(search_results)
             THEN SubmitResp(500, "Search error", <<>>, 0, 1)
             ELSE SubmitResp(200, "json", sanitized,
                             IF HasResults(search_results)
                             THEN search_results[2].n ELSE 0,
                             1)

SubmitInit ==
    /\ mreq \in SubmitRequests
    /\ menv \in UpstreamEnvs
    /\ mresp = NoResp
    /\ SearchIdle
    /\ HighlightIdle
    /\ ArchiveIdle
    /\ SyncIdle
    /\ KeepAliveIdle
    /\ IndexIdle

\* One request to /submit is handled.
Submit ==
    /\ mresp = NoResp
    /\ mresp' = submit(mreq, menv)
    /\ UNCHANGED <<mreq, menv>>
    /\ UNCHANGED notSubmitVars

SubmitNext == Submit

SpecSubmit == SubmitInit /\ [][SubmitNext]_vars

\* ------------------------------------------------------------------------
\* Properties of /submit
\* ------------------------------------------------------------------------

\* The handler called the middleware and got a response.
UpstreamAnswered == mresp # NoResp /\ mresp.calls > 0 /\ menv.post # "raises"

\* The lines that hold something other than whitespace.
FilledLines ==
    { i \in 1..Len(menv.body) : menv.body[i].kind # "blank" }

\* The response has two non-empty JSON lines or more, the second of which
\* is an object with a `results` key.
ExpectedShape ==
    /\ Cardinality(FilledLines) >= 2
    /\ \A i \in FilledLines : menv.body[i].kind # "malformed"
    /\ \E i \in FilledLines :
           /\ Cardinality({ j \in FilledLines : j < i }) = 1
           /\ menv.body[i].kind = "object"
           /\ menv.body[i].results # "absent"

\* C14: when the upstream response deviates from the expected shape, the
\* caller receives an error response, not a success; and the upstream
\* endpoint is called at most once per request.
C14_ShapeDeviationIsError ==
    /\ mresp # NoResp => mresp.calls <= 1
    /\ (UpstreamAnswered /\ ~ExpectedShape) => mresp.status >= 400

\* ========================================================================
\* _keep_tunnel_alive
\* ========================================================================

\* The routes of the application.
Routes ==
    { "/", "/jsonl", "/search_jsonl", "/pdf", "/highlight", "/submit",
      "/update_jsonl_cache", "/list_cached_jsonl", "/jsonl_index",
      "/preset_jsonl", "/generate_archive" }

\* How requests.get(url, timeout=10) ends: it returns, or it raises an
\* exception, a timeout among them.
PingOutcomes == { "ok", "exception", "timeout" }

\* Lines 827-831: where the thread goes on after a ping.  Every exception
\* of the call is an Exception and is caught and logged, so the thread
\* reaches time.sleep whatever the outcome.  In the faulty variant only a
\* timeout is caught and any other exception ends the thread.
AfterPingCatchingTimeout(outcome) ==
    IF outcome = "exception" THEN "dead" ELSE "sleep"

AfterPing(outcome) == "sleep"

KeepAliveInit ==
    /\ kpc = "loop"
    /\ klast = "none"
    /\ handlers = [h \in HandlerProcs |-> IdleHandler]
    /\ SearchIdle
    /\ HighlightIdle
    /\ ArchiveIdle
    /\ SyncIdle
    /\ SubmitIdle
    /\ IndexIdle

\* Line 828: the thread calls requests.get; the ping is attempted.
KeepAliveCall ==
    /\ kpc = "loop"
    /\ kpc' = "inflight"
    /\ UNCHANGED <<klast, handlers>>
    /\ UNCHANGED notKeepAliveVars

\* Lines 828-831: the call returns or raises within its timeout.
KeepAliveAnswer ==
    /\ kpc = "inflight"
    /\ \E outcome \in PingOutcomes :
          /\ klast' = outcome
          /\ kpc' = AfterPing(outcome)
    /\ UNCHANGED handlers
    /\ UNCHANGED notKeepAliveVars

\* Line 832: time.sleep(60) returns and the loop starts over.
KeepAliveWake ==
    /\ kpc = "sleep"
    /\ kpc' = "loop"
    /\ UNCHANGED <<klast, handlers>>
    /\ UNCHANGED notKeepAliveVars

\* A request arrives and a request thread runs the handler of its route.
HandlerStart(h) ==
    /\ handlers[h].pc = "idle"
    /\ \E route \in Routes :
          handlers' = [handlers EXCEPT ![h] =
              [pc |-> "running", route |-> route, status |-> 0]]
    /\ UNCHANGED <<kpc, klast>>
    /\ UNCHANGED notKeepAliveVars

\* The handler returns a response, of a success or of an error it caught.
HandlerReturn(h) ==
    /\ handlers[h].pc = "running"
    /\ \E status \in {200, 400, 500} :
          handlers' = [handlers EXCEPT ![h] =
              [@ EXCEPT !.pc = "answered", !.status = status]]
    /\ UNCHANGED <<kpc, klast>>
    /\ UNCHANGED notKeepAliveVars

\* The handler raises an exception it does not catch; the framework
\* answers 500 in the request thread.
HandlerRaise(h) ==
    /\ handlers[h].pc = "running"
    /\ handlers' = [handlers EXCEPT ![h] =
           [@ EXCEPT !.pc = "raised", !.status = 500]]
    /\ UNCHANGED <<kpc, klast>>
    /\ UNCHANGED notKeepAliveVars

\* The response is sent and the request thread is free again.
HandlerDone(h) ==
    /\ handlers[h].pc \in {"answered", "raised"}
    /\ handlers' = [handlers EXCEPT ![h] = IdleHandler]
    /\ UNCHANGED <<kpc, klast>>
    /\ UNCHANGED notKeepAliveVars

KeepAliveNext ==
    \/ KeepAliveCall
    \/ KeepAliveAnswer
    \/ KeepAliveWake
    \/ \E h \in HandlerProcs : HandlerStart(h)
    \/ \E h \in HandlerProcs : HandlerReturn(h)
    \/ \E h \in HandlerProcs : HandlerRaise(h)
    \/ \E h \in HandlerProcs : HandlerDone(h)

\* The keep-alive thread is a thread of its own, which the interpreter
\* schedules again and again; requests.get ends within its timeout and
\* time.sleep(60) returns.  Nothing is assumed of the request threads: a
\* request may never arrive and a handler may never return.
SpecKeepAlive ==
    /\ KeepAliveInit
    /\ [][KeepAliveNext]_vars
    /\ WF_vars(KeepAliveCall)
    /\ WF_vars(KeepAliveAnswer)
    /\ WF_vars(KeepAliveWake)

\* ------------------------------------------------------------------------
\* Properties of _keep_tunnel_alive
\* ------------------------------------------------------------------------

\* C18: after a ping has ended, in whatever way, another ping is
\* eventually attempted, whatever the request threads do or fail to do;
\* and no step of a request thread moves the keep-alive thread.
C18_AnotherPingFollows ==
    /\ \A outcome \in PingOutcomes :
           (klast = outcome /\ kpc # "inflight") ~> (kpc = "inflight")
    /\ [][handlers' # handlers => (kpc' = kpc /\ klast' = klast)]_vars

\* A ping is in flight after a ping that raised, while one handler has
\* raised and another is still running.
C18_Witness ==
    /\ kpc = "inflight"
    /\ klast = "exception"
    /\ \E h \in HandlerProcs : handlers[h].pc = "raised"
    /\ \E h \in HandlerProcs : handlers[h].pc = "running"

\* ========================================================================
\* /jsonl_index and /update_jsonl_cache
\* ========================================================================

IndexFile == "index-list.jsonl"

\* The basenames an object under tva/cache/ may have and the names a file
\* of static/jsonl may have, and the .jsonl names in sorted() order.
RemoteNames == { "x.jsonl", "y.jsonl", "index-list.jsonl", "notes.txt" }

DirNames == { "x.jsonl", "y.jsonl", "index-list.jsonl", "README.md" }

JsonlNamesSorted == << "index-list.jsonl", "x.jsonl", "y.jsonl" >>

\* The entries of the object index-list.jsonl of the bucket.
RemoteIndexEntries == { "y.jsonl" }

\* f.endswith('.jsonl')
NameEndsWithJsonl(f) == f \in SeqRange(JsonlNamesSorted)

\* Lines 410-411: `f.endswith('.jsonl') and f != 'index-list.jsonl'`; the
\* faulty variant forgets the index file.
IndexedWithIndexFile(f) == NameEndsWithJsonl(f)

Indexed(f) == NameEndsWithJsonl(f) /\ f # IndexFile

\* sorted(files)
Sorted(files) == SelectSeq(JsonlNamesSorted, LAMBDA f : f \in files)

\* What index-list.jsonl holds after `files` were written through a handle
\* opened with 'w': when another call has written entries in the meantime,
\* the end of what it wrote may stay behind the new entries.
IndexWritten(held, files) ==
    IF held \subseteq files THEN { files } ELSE { files, files \cup held }

\* The calls that have listed the directory see it change under them.
Disturbed(c) ==
    [q \in IndexProcs |->
        IF q # c /\ icall[q].pc \in {"open", "write", "done"}
                /\ icall[q].op = "index"
        THEN [icall[q] EXCEPT !.changed = TRUE]
        ELSE icall[q]]

IndexInit ==
    /\ iremote \in SUBSET RemoteNames
    /\ idir \in SUBSET (DirNames \ SeqRange(JsonlNamesSorted))
    /\ ifile = {}
    /\ icall = [c \in IndexProcs |-> IdleCall]
    /\ SearchIdle
    /\ HighlightIdle
    /\ ArchiveIdle
    /\ SyncIdle
    /\ SubmitIdle
    /\ KeepAliveIdle

\* An object is uploaded under tva/cache/.
RemoteUpload(f) ==
    /\ f \in RemoteNames \ iremote
    /\ iremote' = iremote \cup {f}
    /\ UNCHANGED <<idir, ifile, icall>>
    /\ UNCHANGED notIndexVars

\* A request to /jsonl_index or to /update_jsonl_cache arrives; both start
\* with download_jsonl_cache.
CallStart(c) ==
    /\ icall[c].pc = "idle"
    /\ \E op \in {"index", "update"} :
          icall' = [icall EXCEPT ![c] = [IdleCall EXCEPT !.pc = "sync", !.op = op]]
    /\ UNCHANGED <<iremote, idir, ifile>>
    /\ UNCHANGED notIndexVars

\* download_jsonl_cache, lines 353-368: a .jsonl object without a local
\* file of its name is downloaded.  A download that fails, and an object
\* the listing did not reach, is one this step is not taken for.
CallSyncOne(c) ==
    /\ icall[c].pc = "sync"
    /\ \E f \in iremote :
          /\ NameEndsWithJsonl(f)
          /\ f \notin idir
          /\ idir' = idir \cup {f}
          /\ ifile' = IF f = IndexFile THEN RemoteIndexEntries ELSE ifile
    /\ icall' = Disturbed(c)
    /\ UNCHANGED iremote
    /\ UNCHANGED notIndexVars

\* download_jsonl_cache returns: the listed .jsonl names, or [] after a
\* listing failure.  /update_jsonl_cache answers with that list (lines
\* 381-382); /jsonl_index drops it (lines 405-408).
CallSyncEnd(c) ==
    /\ icall[c].pc = "sync"
    /\ \E listing \in { <<>>, Sorted({ f \in iremote : NameEndsWithJsonl(f) }) } :
          icall' = [icall EXCEPT ![c] =
              IF icall[c].op = "update"
              THEN [@ EXCEPT !.pc = "done", !.result = listing]
              ELSE [@ EXCEPT !.pc = "listdir"]]
    /\ UNCHANGED <<iremote, idir, ifile>>
    /\ UNCHANGED notIndexVars

\* Lines 410-411: the directory is listed and filtered.
CallListdir(c) ==
    /\ icall[c].pc = "listdir"
    /\ icall' = [icall EXCEPT ![c] =
           [@ EXCEPT !.pc = "open",
                     !.files = { f \in idir : Indexed(f) },
                     !.sawIndex = IndexFile \in idir]]
    /\ UNCHANGED <<iremote, idir, ifile>>
    /\ UNCHANGED notIndexVars

\* Line 416: open(index_path, 'w') creates the index file or truncates it.
CallOpen(c) ==
    /\ icall[c].pc = "open"
    /\ idir' = idir \cup {IndexFile}
    /\ ifile' = {}
    /\ icall' = [Disturbed(c) EXCEPT ![c] = [@ EXCEPT !.pc = "write"]]
    /\ UNCHANGED iremote
    /\ UNCHANGED notIndexVars

\* Lines 417-425: one entry per file is written and the sorted list is
\* returned.
CallWrite(c) ==
    /\ icall[c].pc = "write"
    /\ ifile' \in IndexWritten(ifile, icall[c].files)
    /\ icall' = [Disturbed(c) EXCEPT ![c] =
           [@ EXCEPT !.pc = "done", !.persisted = icall[c].files,
                     !.result = Sorted(icall[c].files), !.files = {}]]
    /\ UNCHANGED <<iremote, idir>>
    /\ UNCHANGED notIndexVars

\* The response has been delivered; the next request may arrive.
CallDone(c) ==
    /\ icall[c].pc = "done"
    /\ icall' = [icall EXCEPT ![c] = IdleCall]
    /\ UNCHANGED <<iremote, idir, ifile>>
    /\ UNCHANGED notIndexVars

IndexNext ==
    \/ \E f \in RemoteNames : RemoteUpload(f)
    \/ \E c \in IndexProcs : CallStart(c)
    \/ \E c \in IndexProcs : CallSyncOne(c)
    \/ \E c \in IndexProcs : CallSyncEnd(c)
    \/ \E c \in IndexProcs : CallListdir(c)
    \/ \E c \in IndexProcs : CallOpen(c)
    \/ \E c \in IndexProcs : CallWrite(c)
    \/ \E c \in IndexProcs : CallDone(c)

SpecIndex == IndexInit /\ [][IndexNext]_vars

\* ------------------------------------------------------------------------
\* Properties of /jsonl_index
\* ------------------------------------------------------------------------

\* The call c of /jsonl_index has returned.
IndexReturned(c) == icall[c].pc = "done" /\ icall[c].op = "index"

\* The .jsonl files of the directory other than the index file.
CachedJsonl == idir \cap { "x.jsonl", "y.jsonl" }

\* C19: the list a call of /jsonl_index returns never holds
\* index-list.jsonl; the entries the call wrote to index-list.jsonl are the
\* names of the list; and, unless another call has changed the directory
\* or the index file since the call listed the directory, the index file
\* holds these entries and they are the .jsonl files of the directory
\* other than the index file.
C19_IndexIsTheCachedFiles ==
    \A c \in IndexProcs :
        IndexReturned(c) =>
            /\ IndexFile \notin SeqRange(icall[c].result)
            /\ icall[c].persisted = SeqRange(icall[c].result)
            /\ ~icall[c].changed =>
                   /\ ifile = SeqRange(icall[c].result)
                   /\ SeqRange(icall[c].result) = CachedJsonl

\* A call of /jsonl_index that found the index file of an earlier call in
\* the directory, next to a file that is no .jsonl file, has returned
\* x.jsonl and y.jsonl.
C19_Witness ==
    \E c \in IndexProcs :
        /\ IndexReturned(c)
        /\ icall[c].sawIndex
        /\ ~icall[c].changed
        /\ "README.md" \in idir
        /\ "index-list.jsonl" \notin iremote
        /\ icall[c].result = <<"x.jsonl", "y.jsonl">>

====
